---- MODULE Spec2Model ----
(***************************************************************************)
(* Warbler: the request handlers of app.py over the relational store       *)
(* (users, messages, follow edges, like edges) and the browser sessions.   *)
(* One action per route; each action is the whole handler, the two         *)
(* before_request hooks included.                                          *)
(***************************************************************************)
EXTENDS Integers, Sequences, FiniteSets, Bags, TLC

VARIABLES users, messages, follows, likes, session, nextUserId, nextMsgId, resp

vars == <<users, messages, follows, likes, session, nextUserId, nextMsgId, resp>>
store == <<users, messages, follows, likes>>

(* ---------------------------------------------------------------- bounds *)
MaxUserId == 2      \* user rows ever inserted
MaxMsgId == 1       \* message rows ever inserted through add_message
SeedOver == 2       \* a seeded store holds up to FEED_LIMIT + SeedOver messages

Usernames == {"u1", "u2"}
Emails == {"u1@email.com", "u2@email.com"}
Passwords == {"password", "bad_password"}
SignupPasswords == {"password"}
Sessions == {"c1", "c2"}

None == 0                   \* Python None / a missing row
NoKey == 0                  \* CURR_USER_KEY not in session
UrlIds == 0..MaxUserId      \* <int:...> converters; 0 names no row
UrlMsgIds == 0..MaxMsgId

(* ------------------------------------------------------------- responses *)
NoFeed == <<>>

\* What the client gets back: the status, the flashed message, the template
\* rendered or the location redirected to (tid: the id inside that location),
\* and the messages handed to the template.
Response(route, status, flash, target, tid, feed) ==
    [route |-> route, status |-> status, flash |-> flash, target |-> target,
     tid |-> tid, messages |-> feed]

redirect(route, flash, location, tid) ==
    Response(route, 302, flash, location, tid, NoFeed)

render_template(route, flash, template) ==
    Response(route, 200, flash, template, 0, NoFeed)

\* An HTTPException (404) or an exception no handler catches (500).
abort(route, status, exc) == Response(route, status, "", exc, 0, NoFeed)

\* flash("Access unauthorized.", "danger"); return redirect("/")
AccessUnauthorized(route) == redirect(route, "Access unauthorized.", "/", 0)

(* ------------------------------------------------- models.py (not in src) *)
generate_password_hash(password) == "$2b$" \o password

check_password_hash(hash, password) == hash = generate_password_hash(password)

\* User.authenticate: the user's id on a match, None otherwise.
authenticate(username, password) ==
    LET found == {u \in DOMAIN users : users[u].username = username}
    IN  IF found = {} THEN None
        ELSE LET u == CHOOSE u \in found : TRUE
             IN  IF check_password_hash(users[u].password, password)
                 THEN u ELSE None

\* The unique constraint on users.username alone.
IntegrityError_username_only(self, username, email) ==
    \E u \in DOMAIN users : u # self /\ users[u].username = username

\* The unique constraints on users.username and users.email, checked at commit
\* for the row `self` (None for a new row).
IntegrityError(self, username, email) ==
    \E u \in DOMAIN users :
        /\ u # self
        /\ users[u].username = username \/ users[u].email = email

\* ON DELETE CASCADE from users to messages, follows and likes.
CascadeMessages(uid) ==
    [m \in {n \in DOMAIN messages : messages[n].user_id # uid} |-> messages[m]]

\* A cascade from users to follows on the follower column only.
CascadeFollows_follower_only(uid) ==
    [e \in {f \in BagToSet(follows) : f[1] # uid} |-> follows[e]]

CascadeFollows(uid) ==
    [e \in {f \in BagToSet(follows) : f[1] # uid /\ f[2] # uid} |-> follows[e]]

CascadeLikes(uid, msgs) == {e \in likes : e[1] # uid /\ e[2] \in DOMAIN msgs}

(* -------------------------------------------------------- before_request *)
\* add_user_to_g trusting the key: the id in the session, whether or not a row
\* has it.
g_user_from_key(s) == session[s]

\* add_user_to_g: g.user, None when the key is absent or names no row.
g_user(s) ==
    IF session[s] # NoKey
    THEN IF session[s] \in DOMAIN users THEN session[s] ELSE None
    ELSE None

\* do_login that does not write the key.
do_login_none(s, uid) == session

do_login(s, uid) == [session EXCEPT ![s] = uid]

\* do_logout that leaves the key in the session.
do_logout_keep(s) == session

do_logout(s) == IF session[s] # NoKey THEN [session EXCEPT ![s] = NoKey] ELSE session

(* ------------------------------------------------------------------ Init *)
Init ==
    /\ users = <<>>
    /\ messages = <<>>
    /\ follows = EmptyBag
    /\ likes = {}
    /\ session = [s \in Sessions |-> NoKey]
    /\ nextUserId = 1
    /\ nextMsgId = 1
    /\ resp = Response("none", 0, "", "", 0, NoFeed)

(* ---------------------------------------------------- signup/login/logout *)
\* signup without its except clause: the IntegrityError reaches the client.
signup_IntegrityError_uncaught == abort("signup", 500, "IntegrityError")

\* except IntegrityError: flash(...); return render_template(...)
signup_IntegrityError ==
    render_template("signup", "Username already taken", "users/signup.html")

signup(s, username, email, password, submitted) ==
    /\ (g_user(s) = None /\ submitted /\ ~IntegrityError(None, username, email))
           => nextUserId <= MaxUserId
    /\ IF g_user(s) # None
       THEN /\ resp' = redirect("signup", "", "/", 0)
            /\ UNCHANGED <<store, session, nextUserId, nextMsgId>>
       ELSE IF submitted
       THEN IF IntegrityError(None, username, email)
            THEN /\ resp' = signup_IntegrityError
                 /\ UNCHANGED <<store, session, nextUserId, nextMsgId>>
            ELSE /\ users' = (nextUserId :> [username |-> username, email |-> email,
                                  password |-> generate_password_hash(password)]) @@ users
                 /\ nextUserId' = nextUserId + 1
                 /\ session' = do_login(s, nextUserId)
                 /\ resp' = redirect("signup", "", "/", 0)
                 /\ UNCHANGED <<messages, follows, likes, nextMsgId>>
       ELSE /\ resp' = render_template("signup", "", "users/signup.html")
            /\ UNCHANGED <<store, session, nextUserId, nextMsgId>>

\* login() telling an unknown username from a wrong password.
login_response_leaky(s, username, password, submitted) ==
    IF g_user(s) # None
    THEN redirect("login", "", "/", 0)
    ELSE IF submitted /\ authenticate(username, password) # None
    THEN redirect("login", "Hello, " \o username \o "!", "/", 0)
    ELSE render_template("login",
             IF ~submitted THEN ""
             ELSE IF \E u \in DOMAIN users : users[u].username = username
             THEN "Invalid credentials." ELSE "Unknown username.",
             "users/login.html")

\* login() logging in whoever carries the username, the password unchecked.
login_session_by_username(s, username, password, submitted) ==
    IF g_user(s) = None /\ submitted
           /\ \E u \in DOMAIN users : users[u].username = username
    THEN do_login(s, CHOOSE u \in DOMAIN users : users[u].username = username)
    ELSE session

\* The response of login(), and the session it leaves.
login_response(s, username, password, submitted) ==
    IF g_user(s) # None
    THEN redirect("login", "", "/", 0)
    ELSE IF submitted /\ authenticate(username, password) # None
    THEN redirect("login", "Hello, " \o username \o "!", "/", 0)
    ELSE render_template("login", IF submitted THEN "Invalid credentials." ELSE "",
                         "users/login.html")

login_session(s, username, password, submitted) ==
    IF g_user(s) = None /\ submitted /\ authenticate(username, password) # None
    THEN do_login(s, authenticate(username, password))
    ELSE session

login(s, username, password, submitted) ==
    /\ resp' = login_response(s, username, password, submitted)
    /\ session' = login_session(s, username, password, submitted)
    /\ UNCHANGED <<store, nextUserId, nextMsgId>>

\* logout without the token check of validate_on_submit.
logout_unchecked(s, csrf) ==
    /\ session' = do_logout(s)
    /\ resp' = redirect("logout", "Logged out, Going so soon :(", "/login", 0)
    /\ UNCHANGED <<store, nextUserId, nextMsgId>>

logout(s, csrf) ==
    IF csrf
    THEN /\ session' = do_logout(s)
         /\ resp' = redirect("logout", "Logged out, Going so soon :(", "/login", 0)
         /\ UNCHANGED <<store, nextUserId, nextMsgId>>
    ELSE /\ resp' = AccessUnauthorized("logout")
         /\ UNCHANGED <<store, session, nextUserId, nextMsgId>>

(* ---------------------------------------------------- general user routes *)
list_users(s) ==
    /\ resp' = IF g_user(s) = None
               THEN AccessUnauthorized("list_users")
               ELSE render_template("list_users", "", "users/index.html")
    /\ UNCHANGED <<store, session, nextUserId, nextMsgId>>

\* The page of a user looked up with get instead of get_or_404.
UserPage_get(route, s, user_id, template) ==
    IF g_user(s) = None
    THEN AccessUnauthorized(route)
    ELSE render_template(route, "", template)

\* User.query.get_or_404(user_id) followed by the page of that user.
UserPage(route, s, user_id, template) ==
    IF g_user(s) = None
    THEN AccessUnauthorized(route)
    ELSE IF user_id \notin DOMAIN users
    THEN abort(route, 404, "NotFound")
    ELSE render_template(route, "", template)

show_user(s, user_id) ==
    /\ resp' = UserPage("show_user", s, user_id, "users/show.html")
    /\ UNCHANGED <<store, session, nextUserId, nextMsgId>>

show_following(s, user_id) ==
    /\ resp' = UserPage("show_following", s, user_id, "users/following.html")
    /\ UNCHANGED <<store, session, nextUserId, nextMsgId>>

show_followers(s, user_id) ==
    /\ resp' = UserPage("show_followers", s, user_id, "users/followers.html")
    /\ UNCHANGED <<store, session, nextUserId, nextMsgId>>

\* g.user.following.append(v) that inserts a row whether or not one is there.
following_append_always(rows, u, v) == rows (+) SetToBag({<<u, v>>})

\* followed_user.following.append(g.user): the edge written the wrong way round.
following_append_reversed(rows, u, v) ==
    IF BagIn(<<v, u>>, rows) THEN rows ELSE rows (+) SetToBag({<<v, u>>})

\* g.user.following.append(v); db.session.commit(): the follows table after
\* the flush, which inserts a row for (u, v) only when the collection it loaded
\* did not hold v already.
following_append(rows, u, v) ==
    IF BagIn(<<u, v>>, rows) THEN rows ELSE rows (+) SetToBag({<<u, v>>})

\* g.user.following.remove(v) that drops every row of the follower.
following_remove_follower(rows, u, v) ==
    [e \in {f \in BagToSet(rows) : f[1] # u} |-> rows[e]]

\* g.user.following.remove(v); db.session.commit(), v in the collection: the
\* follows table without the rows of (u, v).
following_remove(rows, u, v) == [e \in BagToSet(rows) \ {<<u, v>>} |-> rows[e]]

\* stop_following answering a missing edge with its usual redirect.
following_remove_silent == redirect("stop_following", "", "/users/{id}/following", 0)

\* g.user.following.remove(v), v not in the collection: list.remove raises
\* ValueError, which no handler catches; nothing is committed.
following_remove_ValueError == abort("stop_following", 500, "ValueError")

\* start_following with a guard that refuses the user's own id.
start_following_no_self(s, follow_id, csrf) ==
    IF g_user(s) = None \/ ~csrf \/ follow_id = g_user(s)
    THEN /\ resp' = AccessUnauthorized("start_following")
         /\ UNCHANGED <<store, session, nextUserId, nextMsgId>>
    ELSE IF follow_id \notin DOMAIN users
    THEN /\ resp' = abort("start_following", 404, "NotFound")
         /\ UNCHANGED <<store, session, nextUserId, nextMsgId>>
    ELSE /\ follows' = following_append(follows, g_user(s), follow_id)
         /\ resp' = redirect("start_following", "",
                             "/users/{id}/following", g_user(s))
         /\ UNCHANGED <<users, messages, likes, session, nextUserId, nextMsgId>>

start_following(s, follow_id, csrf) ==
    IF g_user(s) = None \/ ~csrf
    THEN /\ resp' = AccessUnauthorized("start_following")
         /\ UNCHANGED <<store, session, nextUserId, nextMsgId>>
    ELSE IF follow_id \notin DOMAIN users
    THEN /\ resp' = abort("start_following", 404, "NotFound")
         /\ UNCHANGED <<store, session, nextUserId, nextMsgId>>
    ELSE /\ follows' = following_append(follows, g_user(s), follow_id)
         /\ resp' = redirect("start_following", "",
                             "/users/{id}/following", g_user(s))
         /\ UNCHANGED <<users, messages, likes, session, nextUserId, nextMsgId>>

stop_following(s, follow_id, csrf) ==
    IF g_user(s) = None \/ ~csrf
    THEN /\ resp' = AccessUnauthorized("stop_following")
         /\ UNCHANGED <<store, session, nextUserId, nextMsgId>>
    ELSE IF follow_id \notin DOMAIN users
    THEN /\ resp' = abort("stop_following", 404, "NotFound")
         /\ UNCHANGED <<store, session, nextUserId, nextMsgId>>
    ELSE IF ~BagIn(<<g_user(s), follow_id>>, follows)
    THEN /\ resp' = following_remove_ValueError
         /\ UNCHANGED <<store, session, nextUserId, nextMsgId>>
    ELSE /\ follows' = following_remove(follows, g_user(s), follow_id)
         /\ resp' = redirect("stop_following", "",
                             "/users/{id}/following", g_user(s))
         /\ UNCHANGED <<users, messages, likes, session, nextUserId, nextMsgId>>

\* form.data passed on whole, the password field included.
profile_data_all(username, email, password) ==
    [username |-> username, email |-> email, password |-> password]

\* {k: v for k, v in form.data.items() if k != "csrf_token" and k != "password"}
profile_data(username, email, password) ==
    [username |-> username, email |-> email]

\* User.edit_user(**data): every field named in data is set on the row.
edit_user(uid, data) ==
    [users EXCEPT ![uid] = [k \in DOMAIN users[uid] |->
                               IF k \in DOMAIN data THEN data[k] ELSE users[uid][k]]]

\* profile without its except clause: the IntegrityError reaches the client.
profile_IntegrityError_uncaught == abort("profile", 500, "IntegrityError")

\* except IntegrityError: flash(...); return render_template(...)
profile_IntegrityError ==
    render_template("profile", "Username already taken", "users/edit.html")

profile(s, username, email, password, submitted) ==
    IF g_user(s) = None
    THEN /\ resp' = AccessUnauthorized("profile")
         /\ UNCHANGED <<store, session, nextUserId, nextMsgId>>
    ELSE IF ~submitted
    THEN /\ resp' = render_template("profile", "", "users/edit.html")
         /\ UNCHANGED <<store, session, nextUserId, nextMsgId>>
    ELSE IF authenticate(users[g_user(s)].username, password) = None
    THEN /\ resp' = redirect("profile", "", "/users/{id}", g_user(s))
         /\ UNCHANGED <<store, session, nextUserId, nextMsgId>>
    ELSE IF IntegrityError(g_user(s), username, email)
    THEN /\ resp' = profile_IntegrityError
         /\ UNCHANGED <<store, session, nextUserId, nextMsgId>>
    ELSE /\ users' = edit_user(g_user(s), profile_data(username, email, password))
         /\ resp' = redirect("profile", "", "/users/{id}", g_user(s))
         /\ UNCHANGED <<messages, follows, likes, session, nextUserId, nextMsgId>>

\* User.query.delete(), the filter forgotten.
DeleteUserRow_all(uid) == <<>>

\* User.query.filter_by(id=g.user.id).delete() and the store's cascades.
DeleteUserRow(uid) == [u \in DOMAIN users \ {uid} |-> users[u]]

delete_user(s, csrf) ==
    IF g_user(s) = None \/ ~csrf
    THEN /\ resp' = AccessUnauthorized("delete_user")
         /\ UNCHANGED <<store, session, nextUserId, nextMsgId>>
    ELSE /\ session' = do_logout(s)
         /\ users' = DeleteUserRow(g_user(s))
         /\ messages' = CascadeMessages(g_user(s))
         /\ follows' = CascadeFollows(g_user(s))
         /\ likes' = CascadeLikes(g_user(s), CascadeMessages(g_user(s)))
         /\ resp' = redirect("delete_user", "", "/signup", 0)
         /\ UNCHANGED <<nextUserId, nextMsgId>>

(* --------------------------------------------------------- messages routes *)
\* Message.timestamp defaults to the time of the insert; the clock has moved on
\* between any two inserts.
utcnow == nextMsgId

add_message(s, submitted) ==
    /\ (g_user(s) # None /\ submitted) => nextMsgId <= MaxMsgId
    /\ IF g_user(s) = None
       THEN /\ resp' = AccessUnauthorized("add_message")
            /\ UNCHANGED <<store, session, nextUserId, nextMsgId>>
       ELSE IF submitted
       THEN /\ messages' = (nextMsgId :> [user_id |-> g_user(s), timestamp |-> utcnow])
                               @@ messages
            /\ nextMsgId' = nextMsgId + 1
            /\ resp' = redirect("add_message", "", "/users/{id}", g_user(s))
            /\ UNCHANGED <<users, follows, likes, session, nextUserId>>
       ELSE /\ resp' = render_template("add_message", "", "messages/create.html")
            /\ UNCHANGED <<store, session, nextUserId, nextMsgId>>

\* show_message without its "if not g.user" guard.
show_message_unguarded(s, message_id) ==
    /\ resp' = IF message_id \notin DOMAIN messages
               THEN abort("show_message", 404, "NotFound")
               ELSE render_template("show_message", "", "messages/show.html")
    /\ UNCHANGED <<store, session, nextUserId, nextMsgId>>

show_message(s, message_id) ==
    /\ resp' = IF g_user(s) = None
               THEN AccessUnauthorized("show_message")
               ELSE IF message_id \notin DOMAIN messages
               THEN abort("show_message", 404, "NotFound")
               ELSE render_template("show_message", "", "messages/show.html")
    /\ UNCHANGED <<store, session, nextUserId, nextMsgId>>

\* db.session.delete(msg): the table without that row.
DeleteMessageRow(message_id) ==
    [m \in DOMAIN messages \ {message_id} |-> messages[m]]

delete_message(s, message_id, csrf) ==
    IF g_user(s) = None \/ ~csrf
    THEN /\ resp' = AccessUnauthorized("delete_message")
         /\ UNCHANGED <<store, session, nextUserId, nextMsgId>>
    ELSE IF message_id \notin DOMAIN messages
    THEN /\ resp' = abort("delete_message", 404, "NotFound")
         /\ UNCHANGED <<store, session, nextUserId, nextMsgId>>
    ELSE /\ messages' = DeleteMessageRow(message_id)
         /\ likes' = {e \in likes : e[2] # message_id}
         /\ resp' = redirect("delete_message", "", "/users/{id}", g_user(s))
         /\ UNCHANGED <<users, follows, session, nextUserId, nextMsgId>>

\* POST /messages/<id>/like: app.py registers no rule for this path, so the
\* URL map answers 404 before any view runs.
toggle_like(s, message_id) ==
    /\ resp' = abort("toggle_like", 404, "NotFound")
    /\ UNCHANGED <<store, session, nextUserId, nextMsgId>>

(* ---------------------------------------------------------------- homepage *)
FEED_LIMIT == 100

\* [followed_user.id for followed_user in g.user.following] + [g.user.id]
show_tweets_from_users_ids(uid) ==
    {e[2] : e \in {f \in BagToSet(follows) : f[1] = uid}} \cup {uid}

\* Message.query: the rows of the table, as the sequence of their ids.
MessageQuery == SelectSeq([i \in 1..(nextMsgId - 1) |-> i], LAMBDA m : m \in DOMAIN messages)

\* .filter(Message.user_id.in_(ids))
FilterUserIn(q, ids) == SelectSeq(q, LAMBDA m : messages[m].user_id \in ids)

\* .order_by(Message.timestamp.desc()): newest first.
OrderByTimestampDesc(q) ==
    SortSeq(q, LAMBDA a, b : messages[a].timestamp > messages[b].timestamp)

\* The query without its .limit(n).
Limit_none(q, n) == q

\* .limit(n)
Limit(q, n) == IF Len(q) <= n THEN q ELSE SubSeq(q, 1, n)

homepage_messages(uid) ==
    Limit(OrderByTimestampDesc(FilterUserIn(MessageQuery, show_tweets_from_users_ids(uid))),
          FEED_LIMIT)

homepage(s) ==
    /\ resp' = IF g_user(s) # None
               THEN Response("homepage", 200, "", "home.html", 0,
                             homepage_messages(g_user(s)))
               ELSE render_template("homepage", "", "home-anon.html")
    /\ UNCHANGED <<store, session, nextUserId, nextMsgId>>

(* -------------------------------------------------------------------- Next *)
\* Every request a client of SS can send, with form fields from UN, EM and PW
\* (SPW: the passwords chosen at signup).
NextFor(SS, UN, EM, SPW, PW) ==
    \/ \E s \in SS, un \in UN, em \in EM, pw \in SPW, submitted \in BOOLEAN :
          signup(s, un, em, pw, submitted)
    \/ \E s \in SS, un \in UN, pw \in PW, submitted \in BOOLEAN :
          login(s, un, pw, submitted)
    \/ \E s \in SS, csrf \in BOOLEAN : logout(s, csrf)
    \/ \E s \in SS : list_users(s)
    \/ \E s \in SS, id \in UrlIds : show_user(s, id)
    \/ \E s \in SS, id \in UrlIds : show_following(s, id)
    \/ \E s \in SS, id \in UrlIds : show_followers(s, id)
    \/ \E s \in SS, id \in UrlIds, csrf \in BOOLEAN : start_following(s, id, csrf)
    \/ \E s \in SS, id \in UrlIds, csrf \in BOOLEAN : stop_following(s, id, csrf)
    \/ \E s \in SS, un \in UN, em \in EM, pw \in PW, submitted \in BOOLEAN :
          profile(s, un, em, pw, submitted)
    \/ \E s \in SS, csrf \in BOOLEAN : delete_user(s, csrf)
    \/ \E s \in SS, submitted \in BOOLEAN : add_message(s, submitted)
    \/ \E s \in SS, id \in UrlMsgIds : show_message(s, id)
    \/ \E s \in SS, id \in UrlMsgIds, csrf \in BOOLEAN : delete_message(s, id, csrf)
    \/ \E s \in SS, id \in UrlMsgIds : toggle_like(s, id)
    \/ \E s \in SS : homepage(s)

\* One browser, any of the usernames and emails.
Next == NextFor({"c1"}, Usernames, Emails, SignupPasswords, Passwords)

Spec == Init /\ [][Next]_vars

\* Two browsers, which may hold the same account; one username and one email,
\* so one account at a time.
NextClients == NextFor(Sessions, {"u1"}, {"u1@email.com"}, SignupPasswords, Passwords)

SpecClients == Init /\ [][NextClients]_vars

(* ------------------------------------------------------------ seeded store *)
\* A store after three signups and n posts, message i posted at time i: all of
\* them by user 1 (p = 1), or by users 1..p in turn; the browser holds the
\* account of user 1 or 2, or none.
SeedSizes == {FEED_LIMIT - 1, FEED_LIMIT + SeedOver, 2 * FEED_LIMIT + SeedOver}

SeedUser(u) ==
    [username |-> IF u = 1 THEN "u1" ELSE IF u = 2 THEN "u2" ELSE "u3",
     email |-> IF u = 1 THEN "u1@email.com" ELSE IF u = 2 THEN "u2@email.com"
               ELSE "u3@email.com",
     password |-> generate_password_hash("password")]

InitSeeded ==
    /\ users = [u \in {1, 2, 3} |-> SeedUser(u)]
    /\ \E n \in SeedSizes, p \in {1, 2, 3} :
          /\ messages = [i \in 1..n |-> [user_id |-> (i % p) + 1, timestamp |-> i]]
          /\ nextMsgId = n + 1
    /\ follows = EmptyBag
    /\ likes = {}
    /\ \E u \in {NoKey, 1, 2} : session = [s \in Sessions |-> IF s = "c1" THEN u ELSE NoKey]
    /\ nextUserId = 4
    /\ resp = Response("none", 0, "", "", 0, NoFeed)

NextFeed ==
    \/ \E s \in {"c1"} : homepage(s)
    \/ \E s \in {"c1"}, id \in UrlIds, csrf \in BOOLEAN : start_following(s, id, csrf)
    \/ \E s \in {"c1"}, id \in UrlIds, csrf \in BOOLEAN : stop_following(s, id, csrf)
    \/ \E s \in {"c1"}, un \in Usernames, pw \in Passwords, submitted \in BOOLEAN :
          login(s, un, pw, submitted)
    \/ \E s \in {"c1"}, csrf \in BOOLEAN : logout(s, csrf)

SpecFeed == InitSeeded /\ [][NextFeed]_vars

(* -------------------------------------------------------------- data layer *)
\* The outcome of an operation on the models made outside a request: the
\* exception it raised, "" if none.
Outcome(op, exc) == Response(op, 0, "", exc, 0, NoFeed)

\* m = Message(text=..., user_id=user_id); db.session.add(m); db.session.commit():
\* the foreign key of messages.user_id refuses an id that names no user.
Message_create(user_id) ==
    /\ user_id \in DOMAIN users => nextMsgId <= MaxMsgId
    /\ IF user_id \notin DOMAIN users
       THEN /\ resp' = Outcome("Message", "IntegrityError")
            /\ UNCHANGED <<store, session, nextUserId, nextMsgId>>
       ELSE /\ messages' = (nextMsgId :> [user_id |-> user_id, timestamp |-> utcnow])
                               @@ messages
            /\ nextMsgId' = nextMsgId + 1
            /\ resp' = Outcome("Message", "")
            /\ UNCHANGED <<users, follows, likes, session, nextUserId>>

\* u.likes.append(m); db.session.commit(), u and m rows fetched from the store.
likes_append(user_id, message_id) ==
    /\ user_id \in DOMAIN users
    /\ message_id \in DOMAIN messages
    /\ likes' = likes \cup {<<user_id, message_id>>}
    /\ resp' = Outcome("likes", "")
    /\ UNCHANGED <<users, messages, follows, session, nextUserId, nextMsgId>>

\* Signups, posts, follows, likes, message deletions and account deletions, by
\* requests of one browser and by direct use of the models.
NextStore ==
    \/ \E un \in Usernames, em \in Emails, pw \in SignupPasswords :
          signup("c1", un, em, pw, TRUE)
    \/ \E un \in Usernames, pw \in SignupPasswords : login("c1", un, pw, TRUE)
    \/ logout("c1", TRUE)
    \/ add_message("c1", TRUE)
    \/ \E id \in UrlMsgIds : delete_message("c1", id, TRUE)
    \/ \E id \in UrlMsgIds : toggle_like("c1", id)
    \/ \E id \in UrlIds : start_following("c1", id, TRUE)
    \/ \E id \in UrlIds : stop_following("c1", id, TRUE)
    \/ delete_user("c1", TRUE)
    \/ \E id \in UrlIds : Message_create(id)
    \/ \E u \in UrlIds, m \in UrlMsgIds : likes_append(u, m)

SpecStore == Init /\ [][NextStore]_vars
(* ================================================================= claims *)
\* The user a session stands for: the row its key names, if there is one.
CurrentUser(s) == IF session[s] \in DOMAIN users THEN session[s] ELSE None

Owner(m) == messages[m].user_id

\* A request by client s to one of the user-scoped routes, whatever its
\* arguments.
UserScopedRequest(s) ==
    \/ list_users(s)
    \/ \E id \in UrlIds : show_user(s, id) \/ show_following(s, id) \/ show_followers(s, id)
    \/ \E id \in UrlIds, csrf \in BOOLEAN :
          start_following(s, id, csrf) \/ stop_following(s, id, csrf)
    \/ \E un \in Usernames, em \in Emails, pw \in Passwords, submitted \in BOOLEAN :
          profile(s, un, em, pw, submitted)
    \/ \E csrf \in BOOLEAN : delete_user(s, csrf)
    \/ \E submitted \in BOOLEAN : add_message(s, submitted)
    \/ \E id \in UrlMsgIds : show_message(s, id)
    \/ \E id \in UrlMsgIds, csrf \in BOOLEAN : delete_message(s, id, csrf)

UserScopedRoutes ==
    {"list_users", "show_user", "show_following", "show_followers", "start_following",
     "stop_following", "profile", "delete_user", "add_message", "show_message",
     "delete_message"}

RejectedAsUnauthorized(r) ==
    r.status = 302 /\ r.target = "/" /\ r.flash = "Access unauthorized."

\* C1: a request to a user-scoped route from a session that resolves to no
\* current user (no key, or a key that names no row) is answered with a
\* redirect to "/" and the flash "Access unauthorized.", and changes neither
\* the store nor the session.
C1_AnonymousRejected ==
    [][resp'.route \in UserScopedRoutes =>
          \A s \in Sessions :
              (CurrentUser(s) = None /\ UserScopedRequest(s))
                  => (RejectedAsUnauthorized(resp') /\ UNCHANGED <<store, session>>)]_vars

\* A message exists, no session resolves to a user, one session still holds
\* the key of a deleted account, and show_message has just been refused.
C1_Witness ==
    /\ DOMAIN messages # {}
    /\ \A s \in Sessions : CurrentUser(s) = None
    /\ \E s \in Sessions : session[s] # NoKey
    /\ resp.route = "show_message"
    /\ RejectedAsUnauthorized(resp)

\* C2: a logged-in user who does not own message :id gets "Access
\* unauthorized." from POST /messages/:id/delete and the message stays; a
\* message only ever disappears through its owner's delete_message or its
\* owner's delete_user.
C2_OnlyOwnerDeletes ==
    [][/\ resp'.route = "delete_message" =>
             \A s \in Sessions, m \in DOMAIN messages, csrf \in BOOLEAN :
                 (CurrentUser(s) # None /\ Owner(m) # CurrentUser(s)
                      /\ delete_message(s, m, csrf))
                     => (m \in DOMAIN messages' /\ RejectedAsUnauthorized(resp'))
       /\ \A m \in DOMAIN messages \ DOMAIN messages' :
             \E s \in Sessions, csrf \in BOOLEAN :
                 /\ CurrentUser(s) = Owner(m)
                 /\ delete_message(s, m, csrf) \/ delete_user(s, csrf)]_vars

ToggleEdge(rel, e) == IF e \in rel THEN rel \ {e} ELSE rel \cup {e}

\* C3: POST /messages/:id/like by a logged-in user u on an existing message m
\* of another user flips the like edge (u, m) and no other.
C3_LikeToggles ==
    [][resp'.route = "toggle_like" =>
          \A s \in Sessions, m \in DOMAIN messages :
              (CurrentUser(s) # None /\ Owner(m) # CurrentUser(s) /\ toggle_like(s, m))
                  => likes' = ToggleEdge(likes, <<CurrentUser(s), m>>)]_vars

\* C4: POST /messages/:id/like by the owner of message :id is rejected with
\* "Access unauthorized." and adds no edge; no state holds a like edge from a
\* user to a message of their own.
C4_NoSelfLike ==
    [][/\ resp'.route = "toggle_like" =>
             \A s \in Sessions, m \in DOMAIN messages :
                 (CurrentUser(s) # None /\ Owner(m) = CurrentUser(s) /\ toggle_like(s, m))
                     => (RejectedAsUnauthorized(resp') /\ likes' = likes)
       /\ \A e \in likes' : e[2] \in DOMAIN messages' => messages'[e[2]].user_id # e[1]]_vars
\* C5: no two distinct users share a username, and no two share an email.
C5_UniqueUsernameEmail ==
    \A u, v \in DOMAIN users :
        u # v => (users[u].username # users[v].username /\ users[u].email # users[v].email)

\* Two accounts exist and a signup or a profile edit has just been refused for
\* a value already in use.
C5_Witness ==
    /\ Cardinality(DOMAIN users) = 2
    /\ resp.route \in {"signup", "profile"}
    /\ resp.flash = "Username already taken"

Taken(username, email) ==
    \E u \in DOMAIN users : users[u].username = username \/ users[u].email = email

\* C6: a submitted POST /signup whose username or email is that of an existing
\* user adds and changes no user row, leaves the session without a current
\* user, and is answered with the signup form and a flash message.
C6_DuplicateSignupRecoverable ==
    [][resp'.route = "signup" =>
          \A s \in Sessions, un \in Usernames, em \in Emails, pw \in Passwords :
              (CurrentUser(s) = None /\ Taken(un, em) /\ signup(s, un, em, pw, TRUE))
                  => /\ users' = users
                     /\ session' = session
                     /\ CurrentUser(s)' = None
                     /\ resp'.status = 200
                     /\ resp'.target = "users/signup.html"
                     /\ resp'.flash # ""]_vars

\* An account exists, the browser is logged out and its signup has just been
\* answered with the form and a flash.
C6_Witness ==
    /\ DOMAIN users # {}
    /\ CurrentUser("c1") = None
    /\ resp.route = "signup"
    /\ resp.target = "users/signup.html"
    /\ resp.flash # ""

Matches(u, username, password) ==
    /\ users[u].username = username
    /\ users[u].password = generate_password_hash(password)

\* C7: a submitted POST /login from a session without a current user makes U
\* the session's user exactly when the username and the password are U's;
\* otherwise the session stays without a current user; the store is unchanged.
C7_LoginExactlyOnMatch ==
    [][resp'.route = "login" =>
          \A s \in Sessions, un \in Usernames, pw \in Passwords :
              (CurrentUser(s) = None /\ login(s, un, pw, TRUE))
                  => /\ UNCHANGED store
                     /\ \A t \in Sessions \ {s} : session'[t] = session[t]
                     /\ IF \E u \in DOMAIN users : Matches(u, un, pw)
                        THEN \E u \in DOMAIN users : Matches(u, un, pw) /\ session'[s] = u
                        ELSE session' = session /\ CurrentUser(s)' = None]_vars

\* Two accounts exist and the browser has just logged in as the one named u1.
C7_Witness ==
    /\ Cardinality(DOMAIN users) = 2
    /\ resp.route = "login"
    /\ resp.flash = "Hello, u1!"
    /\ CurrentUser("c1") # None
    /\ users[CurrentUser("c1")].username = "u1"

UnknownUsername(username) == \A u \in DOMAIN users : users[u].username # username

WrongPassword(username, password) ==
    \E u \in DOMAIN users :
        users[u].username = username /\ users[u].password # generate_password_hash(password)

\* C8: from the same state, a login with an unknown username and a login with
\* an existing username and a wrong password get the same response, the login
\* form with "Invalid credentials.", and change neither session nor store.
C8_FailedLoginsAlike ==
    [][resp'.route = "login" =>
          /\ \A s \in Sessions, un1, un2 \in Usernames, pw1, pw2 \in Passwords :
                (CurrentUser(s) = None /\ UnknownUsername(un1) /\ WrongPassword(un2, pw2))
                    => login_response(s, un1, pw1, TRUE) = login_response(s, un2, pw2, TRUE)
          /\ \A s \in Sessions, un \in Usernames, pw \in Passwords :
                (CurrentUser(s) = None /\ (UnknownUsername(un) \/ WrongPassword(un, pw))
                     /\ login(s, un, pw, TRUE))
                    => /\ resp'.status = 200
                       /\ resp'.target = "users/login.html"
                       /\ resp'.flash = "Invalid credentials."
                       /\ UNCHANGED <<store, session>>]_vars

\* One username is taken and the other is not, so both kinds of failure are
\* possible, and a login has just failed.
C8_Witness ==
    /\ \E un \in Usernames : UnknownUsername(un)
    /\ \E un \in Usernames : ~UnknownUsername(un)
    /\ CurrentUser("c1") = None
    /\ resp.route = "login"
    /\ resp.flash = "Invalid credentials."

FeedIds(uid) == {homepage_messages(uid)[i] : i \in 1..Len(homepage_messages(uid))}

\* C9: after logged-in u's POST /users/delete with a valid token, u's row and
\* every message u owned are gone (from the table, hence not found by id, and
\* from every remaining user's feed), and every other user's row and every
\* other user's message are as they were.
C9_DeleteUserCascades ==
    [][resp'.route = "delete_user" => \A s \in Sessions :
          (CurrentUser(s) # None /\ delete_user(s, TRUE))
              => LET u == CurrentUser(s)
                     owned == {m \in DOMAIN messages : Owner(m) = u}
                 IN  /\ u \notin DOMAIN users'
                     /\ owned \cap DOMAIN messages' = {}
                     /\ \A v \in DOMAIN users' : FeedIds(v)' \cap owned = {}
                     /\ DOMAIN users' = DOMAIN users \ {u}
                     /\ \A v \in DOMAIN users' : users'[v] = users[v]
                     /\ DOMAIN messages' = DOMAIN messages \ owned
                     /\ \A m \in DOMAIN messages' : messages'[m] = messages[m]]_vars

\* An account has just been deleted; another account is still there, and the
\* one message ever posted is gone.
C9_Witness ==
    /\ resp.route = "delete_user"
    /\ resp.target = "/signup"
    /\ DOMAIN users # {}
    /\ nextMsgId > 1
    /\ DOMAIN messages = {}

Min(a, b) == IF a <= b THEN a ELSE b

Visible(uid) ==
    {m \in DOMAIN messages : Owner(m) = uid \/ BagIn(<<uid, Owner(m)>>, follows)}

\* feed is the first 100 (or all) of the messages visible to uid, newest first.
IsFeedOf(feed, uid) ==
    LET shown == {feed[i] : i \in 1..Len(feed)}
    IN  /\ Len(feed) = Min(Cardinality(Visible(uid)), 100)
        /\ shown \subseteq Visible(uid)
        /\ \A i \in 1..(Len(feed) - 1) :
              messages[feed[i]].timestamp > messages[feed[i + 1]].timestamp
        /\ \A m \in Visible(uid) \ shown :
              messages[m].timestamp < messages[feed[Len(feed)]].timestamp

\* C10: GET / by logged-in u shows exactly the first 100 (or all, if fewer) of
\* the messages owned by u or by a user u follows, newest first, and none of
\* anyone else; without a current user it shows the anonymous page and no
\* messages.
C10_HomepageFeed ==
    [][resp'.route = "homepage" => \A s \in Sessions :
          homepage(s)
              => IF CurrentUser(s) = None
                 THEN resp'.target = "home-anon.html" /\ resp'.messages = <<>>
                 ELSE resp'.target = "home.html"
                          /\ IsFeedOf(resp'.messages, CurrentUser(s))]_vars

\* A feed of 100 messages has just been shown to a user who follows somebody,
\* with a visible message cut off and a message of an unfollowed user left out.
C10_Witness ==
    /\ resp.route = "homepage"
    /\ Len(resp.messages) = 100
    /\ CurrentUser("c1") # None
    /\ \E e \in BagToSet(follows) : e[1] = CurrentUser("c1") /\ e[2] # e[1]
    /\ \E m \in Visible(CurrentUser("c1")) : \A i \in 1..100 : resp.messages[i] # m
    /\ DOMAIN messages \ Visible(CurrentUser("c1")) # {}

is_following(u, v) == BagIn(<<u, v>>, follows)

\* Every pair other than e has as many rows in rows2 as in rows1.
SameButFor(rows1, rows2, e) ==
    \A f \in (BagToSet(rows1) \cup BagToSet(rows2)) \ {e} :
        CopiesIn(f, rows2) = CopiesIn(f, rows1)

\* C11: POST /users/stop-following/:id by a logged-in user who does not follow
\* the existing user :id fails with a raised ValueError, not with a redirect,
\* and leaves the follow relation as it was.
C11_StopFollowingAbsentRaises ==
    [][resp'.route = "stop_following" =>
          \A s \in Sessions, v \in DOMAIN users :
              (CurrentUser(s) # None /\ ~is_following(CurrentUser(s), v)
                   /\ stop_following(s, v, TRUE))
                  => /\ resp'.status = 500
                     /\ resp'.target = "ValueError"
                     /\ follows' = follows]_vars

\* Two accounts exist, somebody follows somebody, and a stop-following has just
\* raised ValueError.
C11_Witness ==
    /\ Cardinality(DOMAIN users) = 2
    /\ follows # EmptyBag
    /\ resp.route = "stop_following"
    /\ resp.target = "ValueError"

\* C12: when logged-in u does not follow existing v, POST /users/follow/v makes
\* the edge (u, v) present and changes no other edge; when u follows v, POST
\* /users/stop-following/v removes that edge and no other; so the removal
\* applied to the relation after the follow gives the relation before it.
C12_FollowRoundTrip ==
    [][/\ resp'.route = "start_following" =>
             \A s \in Sessions, v \in DOMAIN users :
                 (CurrentUser(s) # None /\ ~is_following(CurrentUser(s), v)
                      /\ start_following(s, v, TRUE))
                     => /\ BagIn(<<CurrentUser(s), v>>, follows')
                        /\ SameButFor(follows, follows', <<CurrentUser(s), v>>)
                        /\ following_remove(follows', CurrentUser(s), v) = follows
       /\ resp'.route = "stop_following" =>
             \A s \in Sessions, v \in DOMAIN users :
                 (CurrentUser(s) # None /\ is_following(CurrentUser(s), v)
                      /\ stop_following(s, v, TRUE))
                     => /\ ~BagIn(<<CurrentUser(s), v>>, follows')
                        /\ SameButFor(follows, follows', <<CurrentUser(s), v>>)
                        /\ resp'.status = 302]_vars

\* A stop-following has just succeeded for the logged-in user and left another
\* edge of theirs in place.
C12_Witness ==
    /\ resp.route = "stop_following"
    /\ resp.status = 302
    /\ CurrentUser("c1") # None
    /\ \E v \in DOMAIN users : is_following(CurrentUser("c1"), v)
    /\ \E v \in DOMAIN users : ~is_following(CurrentUser("c1"), v)

UniqueEdges(rows) == \A e \in BagToSet(rows) : CopiesIn(e, rows) = 1

\* C13: every state holds at most one row per ordered (follower, followed)
\* pair, and POST /users/follow/v by a user u who already follows v leaves the
\* follow relation unchanged, (u, v) recorded once.
C13_FollowEdgeUnique ==
    [][/\ UniqueEdges(follows) /\ UniqueEdges(follows')
       /\ resp'.route = "start_following" =>
             \A s \in Sessions, v \in DOMAIN users :
                 (CurrentUser(s) # None /\ is_following(CurrentUser(s), v)
                      /\ start_following(s, v, TRUE))
                     => /\ follows' = follows
                        /\ CopiesIn(<<CurrentUser(s), v>>, follows') = 1]_vars

\* The logged-in user follows both accounts, and a follow request of theirs has
\* just been answered with the redirect to their following page.
C13_Witness ==
    /\ resp.route = "start_following"
    /\ resp.status = 302
    /\ CurrentUser("c1") = resp.tid
    /\ Cardinality(DOMAIN users) = 2
    /\ \A v \in DOMAIN users : is_following(resp.tid, v)

\* C14: POST /logout from a session with no current user is answered with
\* "Access unauthorized." and never with the logout confirmation.
C14_LogoutRequiresLogin ==
    [][resp'.route = "logout" =>
          \A s \in Sessions, csrf \in BOOLEAN :
              (CurrentUser(s) = None /\ logout(s, csrf))
                  => /\ RejectedAsUnauthorized(resp')
                     /\ resp'.flash # "Logged out, Going so soon :("]_vars

\* C15: a logged-in user's POST /logout with a valid token leaves the session
\* without a current user and the store unchanged; from a session without the
\* key every user-scoped request is rejected as unauthorized and leaves it
\* without the key; and the key only comes back through a successful login or
\* signup sent from that session.
C15_LoggedOutUntilLogin ==
    [][\A s \in Sessions :
          /\ (resp'.route = "logout" /\ CurrentUser(s) # None /\ logout(s, TRUE))
                => (session'[s] = NoKey /\ CurrentUser(s)' = None /\ UNCHANGED store)
          /\ (resp'.route \in UserScopedRoutes /\ session[s] = NoKey
                  /\ UserScopedRequest(s))
                => (RejectedAsUnauthorized(resp') /\ session'[s] = NoKey)
          /\ (session[s] = NoKey /\ session'[s] # NoKey)
                => /\ resp'.route \in {"login", "signup"}
                   /\ resp'.status = 302
                   /\ session'[s] \in DOMAIN users'
                   /\ \E un \in Usernames, pw \in Passwords :
                         \/ login(s, un, pw, TRUE)
                         \/ \E em \in Emails : signup(s, un, em, pw, TRUE)]_vars

\* A logout has just been confirmed; the account exists, the other browser is
\* still logged in to it and this one holds no key.
C15_Witness ==
    /\ resp.route = "logout"
    /\ resp.flash = "Logged out, Going so soon :("
    /\ session["c1"] = NoKey
    /\ CurrentUser("c2") # None

TokenRoutes ==
    {"logout", "start_following", "stop_following", "delete_user", "delete_message"}

\* A request by client s to one of the token-protected routes, its token
\* missing or not matching.
RequestWithoutToken(s) ==
    \/ logout(s, FALSE)
    \/ delete_user(s, FALSE)
    \/ \E id \in UrlIds : start_following(s, id, FALSE) \/ stop_following(s, id, FALSE)
    \/ \E id \in UrlMsgIds : delete_message(s, id, FALSE)

\* C16: POST /logout, /users/follow/:id, /users/stop-following/:id,
\* /users/delete and /messages/:id/delete with a missing or non-matching token
\* are answered with a redirect to "/" and "Access unauthorized.", and change
\* neither the store nor the session.
C16_TokenRequired ==
    [][resp'.route \in TokenRoutes =>
          \A s \in Sessions :
              RequestWithoutToken(s)
                  => (RejectedAsUnauthorized(resp') /\ UNCHANGED <<store, session>>)]_vars

\* The logged-in user's request to delete an existing message has just been
\* refused: only the token can have been the reason.
C16_Witness ==
    /\ resp.route = "delete_message"
    /\ RejectedAsUnauthorized(resp)
    /\ CurrentUser("c1") # None
    /\ DOMAIN messages # {}

LookupRoutes ==
    {"start_following", "stop_following", "show_followers", "show_following",
     "show_user", "show_message", "delete_message"}

\* C17: for a logged-in user with a valid token, follow, stop-following, show
\* followers, show following and show user on a user id that names no row, and
\* show message and delete message on a message id that names no row, get a
\* 404 response and change nothing in the store or the session.
C17_MissingIdNotFound ==
    [][resp'.route \in LookupRoutes =>
          \A s \in Sessions :
              CurrentUser(s) # None =>
                  /\ \A id \in UrlIds \ DOMAIN users :
                        (\/ start_following(s, id, TRUE)
                         \/ stop_following(s, id, TRUE)
                         \/ show_followers(s, id)
                         \/ show_following(s, id)
                         \/ show_user(s, id))
                            => (resp'.status = 404 /\ UNCHANGED <<store, session>>)
                  /\ \A id \in UrlMsgIds \ DOMAIN messages :
                        (show_message(s, id) \/ delete_message(s, id, TRUE))
                            => (resp'.status = 404 /\ UNCHANGED <<store, session>>)]_vars

\* A logged-in user, who follows somebody, has just got 404 from
\* stop-following.
C17_Witness ==
    /\ resp.route = "stop_following"
    /\ resp.status = 404
    /\ CurrentUser("c1") # None
    /\ \E v \in DOMAIN users : is_following(CurrentUser("c1"), v)

CorrectPassword(u, password) == users[u].password = generate_password_hash(password)

TakenByOther(u, username, email) ==
    \E v \in DOMAIN users \ {u} : users[v].username = username \/ users[v].email = email

C19_WrongPasswordReported ==
    [][resp'.route = "profile" =>
          \A s \in Sessions, un \in Usernames, em \in Emails, pw \in Passwords :
              (CurrentUser(s) # None /\ ~CorrectPassword(CurrentUser(s), pw)
                   /\ profile(s, un, em, pw, TRUE))
                  => resp'.flash = "Invalid password"]_vars

\* C20: a signup or a profile edit refused because the username or the email is
\* another user's carries the message "Username or email already in use".
C20_DuplicateMessageText ==
    [][/\ resp'.route = "signup" =>
             \A s \in Sessions, un \in Usernames, em \in Emails, pw \in Passwords :
                 (CurrentUser(s) = None /\ Taken(un, em) /\ signup(s, un, em, pw, TRUE))
                     => resp'.flash = "Username or email already in use"
       /\ resp'.route = "profile" =>
             \A s \in Sessions, un \in Usernames, em \in Emails, pw \in Passwords :
                 (CurrentUser(s) # None /\ CorrectPassword(CurrentUser(s), pw)
                      /\ TakenByOther(CurrentUser(s), un, em)
                      /\ profile(s, un, em, pw, TRUE))
                     => resp'.flash = "Username or email already in use"]_vars

ReferentialIntegrity ==
    /\ \A m \in DOMAIN messages : messages[m].user_id \in DOMAIN users
    /\ \A e \in BagToSet(follows) : e[1] \in DOMAIN users /\ e[2] \in DOMAIN users
    /\ \A e \in likes : e[1] \in DOMAIN users /\ e[2] \in DOMAIN messages

\* C21: in every state every message's owner is an existing user and both ends
\* of every follow edge and of every like edge are existing rows; creating a
\* message with a user id that names no user raises and adds no message.
C21_ReferentialIntegrity ==
    [][/\ ReferentialIntegrity /\ ReferentialIntegrity'
       /\ resp'.route = "Message" =>
             \A id \in UrlIds \ DOMAIN users :
                 Message_create(id)
                     => (resp'.target = "IntegrityError" /\ UNCHANGED store)]_vars

\* An account that had posted has just been deleted with its message; a user
\* who follows somebody is still there.
C21_Witness ==
    /\ resp.route = "delete_user"
    /\ resp.status = 302
    /\ nextMsgId > 1
    /\ DOMAIN messages = {}
    /\ follows # EmptyBag

\* C22: a submitted POST /signup from a session without a current user, with a
\* username and an email no user has, adds exactly one user row carrying that
\* username and email, changes no other row, and makes the new user the
\* session's current user, as resolved at the next request.
C22_SignupCreatesAndLogsIn ==
    [][resp'.route = "signup" =>
          \A s \in Sessions, un \in Usernames, em \in Emails, pw \in Passwords :
              (CurrentUser(s) = None /\ ~Taken(un, em) /\ signup(s, un, em, pw, TRUE))
                  => \E new \in DOMAIN users' \ DOMAIN users :
                        /\ DOMAIN users' = DOMAIN users \cup {new}
                        /\ users'[new].username = un
                        /\ users'[new].email = em
                        /\ \A u \in DOMAIN users : users'[u] = users[u]
                        /\ UNCHANGED <<messages, follows, likes>>
                        /\ session'[s] = new
                        /\ g_user(s)' = new
                        /\ \A t \in Sessions \ {s} : session'[t] = session[t]]_vars

\* A second account has just been created and the browser is logged in to it.
C22_Witness ==
    /\ resp.route = "signup"
    /\ resp.status = 302
    /\ Cardinality(DOMAIN users) = 2
    /\ CurrentUser("c1") = nextUserId - 1

\* C23: POST /users/follow/:id by logged-in u with :id = u and a valid token is
\* not rejected: the self-loop (u, u) is in the follow relation afterwards, no
\* other edge changes, and the answer is the redirect to u's following page.
C23_SelfFollowAllowed ==
    [][resp'.route = "start_following" =>
          \A s \in Sessions :
              (CurrentUser(s) # None /\ start_following(s, CurrentUser(s), TRUE))
                  => /\ BagIn(<<CurrentUser(s), CurrentUser(s)>>, follows')
                     /\ SameButFor(follows, follows', <<CurrentUser(s), CurrentUser(s)>>)
                     /\ resp'.status = 302
                     /\ resp'.target = "/users/{id}/following"
                     /\ resp'.tid = CurrentUser(s)]_vars

\* The logged-in user's follow request has just been answered with the
\* redirect, and the only edge there is is their self-loop.
C23_Witness ==
    /\ resp.route = "start_following"
    /\ resp.status = 302
    /\ CurrentUser("c1") # None
    /\ BagToSet(follows) = {<<CurrentUser("c1"), CurrentUser("c1")>>}

\* A session whose key names a row that is no longer there.
Stale(s) == session[s] # NoKey /\ session[s] \notin DOMAIN users

\* C24: g.user is always an existing user or None; after logged-in u's POST
\* /users/delete the deleting session holds no key and no session resolves to
\* u; a session whose key names a deleted row stays that way as long as it
\* keeps the key, and each user-scoped request it sends is rejected as
\* unauthorized and changes neither the store nor the session.
C24_NoRequestForDeletedUser ==
    [][\A s \in Sessions :
          /\ g_user(s) \in DOMAIN users \cup {None}
          /\ g_user(s)' \in DOMAIN users' \cup {None}
          /\ (resp'.route = "delete_user" /\ CurrentUser(s) # None /\ delete_user(s, TRUE))
                => /\ session'[s] = NoKey
                   /\ \A t \in Sessions : g_user(t)' # CurrentUser(s)
                   /\ \A t \in Sessions \ {s} : session'[t] = session[t]
          /\ (Stale(s) /\ session'[s] = session[s]) => Stale(s)'
          /\ (resp'.route \in UserScopedRoutes /\ Stale(s) /\ UserScopedRequest(s))
                => (RejectedAsUnauthorized(resp') /\ UNCHANGED <<store, session>>)]_vars

\* One browser still holds the key of a deleted account, the other holds none,
\* another account exists by now, and a listing of users has just been
\* refused.
C24_Witness ==
    /\ Stale("c2")
    /\ session["c1"] = NoKey
    /\ DOMAIN users # {}
    /\ resp.route = "list_users"
    /\ RejectedAsUnauthorized(resp)

\* C25: a successful POST /users/profile leaves the stored password as it was:
\* afterwards a login with the user's current username and the password given
\* for the edit succeeds as that user, and with any other password it fails.
C25_EditKeepsPassword ==
    [][resp'.route = "profile" =>
          \A s \in Sessions, un \in Usernames, em \in Emails, pw \in Passwords :
              (CurrentUser(s) # None /\ CorrectPassword(CurrentUser(s), pw)
                   /\ ~TakenByOther(CurrentUser(s), un, em)
                   /\ profile(s, un, em, pw, TRUE))
                  => /\ users'[CurrentUser(s)].password = users[CurrentUser(s)].password
                     /\ users'[CurrentUser(s)].username = un
                     /\ authenticate(un, pw)' = CurrentUser(s)
                     /\ \A other \in Passwords \ {pw} : authenticate(un, other)' = None]_vars

\* The only account was created as u1 and the logged-in user's edit has just
\* renamed it to u2.
C25_Witness ==
    /\ resp.route = "profile"
    /\ resp.status = 302
    /\ nextUserId = 2
    /\ CurrentUser("c1") = 1
    /\ users[1].username = "u2"

ScopedRoutes == {"add_message", "start_following", "stop_following", "profile", "delete_user"}

\* A request by client s to add_message, start_following, stop_following,
\* profile or delete_user, whatever its arguments.
ScopedRequest(s) ==
    \/ resp'.route = "add_message" /\ \E submitted \in BOOLEAN : add_message(s, submitted)
    \/ resp'.route = "start_following"
           /\ \E id \in UrlIds, csrf \in BOOLEAN : start_following(s, id, csrf)
    \/ resp'.route = "stop_following"
           /\ \E id \in UrlIds, csrf \in BOOLEAN : stop_following(s, id, csrf)
    \/ resp'.route = "profile"
           /\ \E un \in Usernames, em \in Emails, pw \in Passwords, submitted \in BOOLEAN :
                 profile(s, un, em, pw, submitted)
    \/ resp'.route = "delete_user" /\ \E csrf \in BOOLEAN : delete_user(s, csrf)

\* C26: a request by current user u to add_message, start_following,
\* stop_following, profile or delete_user gives any new message to u, leaves
\* every other user's row and messages as they were, adds no row but a message
\* of u, removes no row but (on delete_user) u's own and u's messages, and
\* changes no follow edge whose follower is another user, except that
\* delete_user removes the edges pointing at u.
C26_EffectsScopedToCurrentUser ==
    [][resp'.route \in ScopedRoutes =>
          \A s \in Sessions :
              (CurrentUser(s) # None /\ ScopedRequest(s))
                  => LET u == CurrentUser(s)
                     IN  /\ \A m \in DOMAIN messages' \ DOMAIN messages :
                               messages'[m].user_id = u
                         /\ \A m \in DOMAIN messages :
                               (messages[m].user_id # u \/ resp'.route # "delete_user")
                                   => (m \in DOMAIN messages' /\ messages'[m] = messages[m])
                         /\ DOMAIN users' \subseteq DOMAIN users
                         /\ \A v \in DOMAIN users \ {u} :
                               v \in DOMAIN users' /\ users'[v] = users[v]
                         /\ resp'.route # "delete_user" => u \in DOMAIN users'
                         /\ \A e \in BagToSet(follows) \cup BagToSet(follows') :
                               e[1] # u
                                   => \/ CopiesIn(e, follows') = CopiesIn(e, follows)
                                      \/ /\ resp'.route = "delete_user"
                                         /\ e[2] = u
                                         /\ CopiesIn(e, follows') = 0
                         /\ resp'.route \in {"add_message", "profile"}
                               => follows' = follows]_vars

\* Another user follows somebody, and the logged-in user's follow request has
\* just added an edge of their own.
C26_Witness ==
    /\ resp.route = "start_following"
    /\ resp.status = 302
    /\ CurrentUser("c1") # None
    /\ \E e \in BagToSet(follows) : e[1] = CurrentUser("c1")
    /\ \E e \in BagToSet(follows) : e[1] # CurrentUser("c1")
====
